---- MODULE Spec2Model ----
(***************************************************************************)
(* Geofence wire protocol of the LoRaWAN geofencing backend.               *)
(*                                                                         *)
(* Downlink side: send_geofence_downlink (app/api/integrations.py) and the *)
(* AU915 polygon compressor (app/api/geofence_polygon_compressor.py).      *)
(* Uplink side: decode_gps_payload (app/services/gps_decoder.py), the      *)
(* uplink webhook process_uplink (app/api/integrations.py) and the         *)
(* position store add_device_position / get_devices                        *)
(* (app/services/device_service.py).                                       *)
(*                                                                         *)
(* Numbers.  Python floats holding degrees are modelled as exact rationals *)
(* on a grid of 1e-4 degree: a coordinate is the integer a standing for    *)
(* a / DegUnit degrees.  Arithmetic on them is exact (f64 rounding noise   *)
(* of about 1e-9 m is not modelled); packing to f32 is modelled bit for    *)
(* bit (round-to-nearest-even).  A frame is a sequence of bytes 0..255; a  *)
(* str is the sequence of its code points.                                 *)
(***************************************************************************)
EXTENDS Integers, Sequences, FiniteSets, TLC

VARIABLES
    args,       \* arguments of the downlink call under way
    pc,         \* "ready" | "scheduled" | "answered" | "sent" | "compressed"
                \* | "packed" | "commanded" | "rejected" | "idle"
    payload,    \* the frame the call built (bytearray at return)
    posted,     \* requests handed to requests.post by the call
    ret,        \* the bool send_geofence_downlink returned
    raised,     \* exception type that escaped the call ("" = none)
    response,   \* HTTP status answered to POST /geofences/ ("" = no request)
    stored,     \* rows of table geofences written by the request
    uplink,     \* what the collar measured and the frame it sent
    hexin,      \* argument of decode_gps_payload (the frame as a hex str)
    upc,        \* "ready" | "decoded" | "idle"
    report,     \* what decode_gps_payload returned
    positions,  \* table device_positions: device id -> rows, oldest first
    units,      \* calls of add_device_position under way, one per worker
    webhook,    \* the last response of /webhook/uplink
    warned,     \* devices the webhook logged an out-of-geofence warning for
    request,    \* the last HTTP request the API handled (n counts them)
    tasks,      \* background tasks added by the handlers, in order
    devices     \* table devices, its id sequence and the INSERTs issued

vars == <<args, pc, payload, posted, ret, raised, response, stored,
          uplink, hexin, upc, report, positions, units, webhook, warned,
          request, tasks, devices>>

downVars == <<args, pc, payload, posted, ret, raised, response, stored>>
upVars == <<uplink, hexin, upc, report>>
trackVars == <<positions, units, webhook, warned>>
apiVars == <<request, tasks, devices>>

-----------------------------------------------------------------------------
(* Model bounds *)

\* longest polygon a caller hands in
MaxVertices == 11

\* HTTP requests the API handles in a run
MaxRequests == 2

\* longest polygon handed to pack_geofence_to_bytes
MaxPackVertices == 2

\* grid points per degree
DegUnit == 10 * 1000

-----------------------------------------------------------------------------
(* Python helpers *)

Min(a, b) == IF a <= b THEN a ELSE b
Max(a, b) == IF a >= b THEN a ELSE b
Abs(a) == IF a >= 0 THEN a ELSE -a

\* Python's seq[:k], k of either sign
SliceTo(s, k) ==
    IF k >= 0 THEN SubSeq(s, 1, Min(k, Len(s)))
    ELSE SubSeq(s, 1, Max(Len(s) + k, 0))

\* Python's a // b for b > 0 (floor), written out so that it does not rest
\* on the sign convention of \div
FloorDiv(a, b) ==
    IF a >= 0 THEN a \div b
    ELSE -(((-a) + b - 1) \div b)

\* a mod b in 0..b-1 for b > 0
FloorMod(a, b) == a - b * FloorDiv(a, b)

\* Python's int(round(x)) where x is the f64 computed for the exact value
\* num/den (den > 0): the nearest integer.  When the exact value lies midway
\* between two integers, the f64 noise puts x on one side or the other (or
\* exactly on the tie, which round() sends to the even neighbour): the model
\* lets either neighbour come out, as tie ("down" | "up") says.
TieBreaks == {"down", "up"}

RoundNearest(num, den, tie) ==
    LET q == FloorDiv(num, den)
    IN  IF 2 * (num - q * den) < den THEN q
        ELSE IF 2 * (num - q * den) > den THEN q + 1
        ELSE IF tie = "up" THEN q + 1 ELSE q

RECURSIVE SumLat(_)
SumLat(cs) == IF cs = <<>> THEN 0 ELSE Head(cs).lat + SumLat(Tail(cs))

RECURSIVE SumLng(_)
SumLng(cs) == IF cs = <<>> THEN 0 ELSE Head(cs).lng + SumLng(Tail(cs))

\* str.encode('ascii'): fails on any code point above 127
IsAscii(s) == \A i \in 1..Len(s) : s[i] < 128

-----------------------------------------------------------------------------
(* struct.pack *)

\* struct.pack('<H', x), 0 <= x <= 65535
PackU16(x) == <<x % 256, (x \div 256) % 256>>

\* struct.pack('<h', x), -32768 <= x <= 32767 (two's complement)
PackI16(x) == PackU16(FloorMod(x, 65536))

\* struct.pack('<i', x), -2^31 <= x < 2^31 (two's complement)
PackI32(x) ==
    << FloorMod(x, 256),
       FloorMod(FloorDiv(x, 256), 256),
       FloorMod(FloorDiv(x, 65536), 256),
       FloorMod(FloorDiv(x, 16777216), 256) >>

\* struct.unpack('<i', b): the top byte carries the sign
UnpackI32(b) ==
    b[1] + 256 * b[2] + 65536 * b[3]
    + 16777216 * (IF b[4] >= 128 THEN b[4] - 256 ELSE b[4])

\* struct.unpack('<h', b)
UnpackH(b) ==
    IF b[1] + 256 * b[2] >= 32768 THEN b[1] + 256 * b[2] - 65536 ELSE b[1] + 256 * b[2]

\* floor(log2(n)) for n >= 1
RECURSIVE Log2(_)
Log2(n) == IF n <= 1 THEN 0 ELSE 1 + Log2(n \div 2)

\* long division: k more binary digits of r/q shifted into m;
\* result <<mantissa, remainder>>
RECURSIVE FracBits(_, _, _, _)
FracBits(m, r, q, k) ==
    IF k = 0 THEN <<m, r>>
    ELSE FracBits(2 * m + ((2 * r) \div q), (2 * r) % q, q, k - 1)

\* scale p/q < 1 up to [1, 2): <<p', exponent>>
RECURSIVE NormUp(_, _, _)
NormUp(p, q, e) == IF p >= q THEN <<p, e>> ELSE NormUp(2 * p, q, e - 1)

\* the four bytes of sign s, unbiased exponent e, 24-bit significand m
F32Bytes(s, e, m) ==
    << m % 256,
       (m \div 256) % 256,
       ((e + 127) % 2) * 128 + ((m \div 65536) % 128),
       s * 128 + ((e + 127) \div 2) >>

\* round to nearest, ties to even: m0 the truncated significand, r0/den the
\* fraction of a unit in the last place that was cut off; a carry out of
\* the 24 bits moves to the next binade
F32Round(s, e0, m0, r0, den) ==
    IF 2 * r0 > den \/ (2 * r0 = den /\ m0 % 2 = 1)
    THEN IF m0 + 1 = 16777216
         THEN F32Bytes(s, e0 + 1, 8388608)
         ELSE F32Bytes(s, e0, m0 + 1)
    ELSE F32Bytes(s, e0, m0)

F32FromBits(s, e0, mr, den) == F32Round(s, e0, mr[1], mr[2], den)

\* p/den >= 1 with integer part ip of e0 + 1 bits
F32Large(s, p, den, e0) ==
    F32FromBits(s, e0, FracBits(p \div den, p % den, den, 23 - e0), den)

\* p/den < 1, scaled up to up[1]/den in [1, 2) with exponent up[2]
F32Small(s, up, den) ==
    F32FromBits(s, up[2], FracBits(1, up[1] - den, den, 23), den)

\* struct.pack('<f', v) for the exact value v = num/den (den > 0): IEEE-754
\* binary32, round to nearest even, little-endian.  Normal range only.
PackF32(num, den) ==
    IF num = 0 THEN <<0, 0, 0, 0>>
    ELSE IF Abs(num) >= den
        THEN F32Large(IF num < 0 THEN 1 ELSE 0, Abs(num), den, Log2(Abs(num) \div den))
        ELSE F32Small(IF num < 0 THEN 1 ELSE 0, NormUp(Abs(num), den, 0), den)

-----------------------------------------------------------------------------
(* base64.b64encode: three bytes become four sextets, "=" (64) pads *)

RECURSIVE B64Encode(_)
B64Encode(b) ==
    IF b = <<>> THEN <<>>
    ELSE IF Len(b) = 1 THEN
        << b[1] \div 4, (b[1] % 4) * 16, 64, 64 >>
    ELSE IF Len(b) = 2 THEN
        << b[1] \div 4, (b[1] % 4) * 16 + (b[2] \div 16), (b[2] % 16) * 4, 64 >>
    ELSE
        << b[1] \div 4, (b[1] % 4) * 16 + (b[2] \div 16),
           (b[2] % 16) * 4 + (b[3] \div 64), b[3] % 64 >>
        \o B64Encode(SubSeq(b, 4, Len(b)))

-----------------------------------------------------------------------------
(* geofence_polygon_compressor.py *)

TableRates == {"SF7", "SF8", "SF9", "SF10", "SF11", "SF12"}

AU915_PAYLOAD_LIMITS ==
    [sf \in TableRates |->
        CASE sf = "SF7"  -> 222
          [] sf = "SF8"  -> 222
          [] sf = "SF9"  -> 115
          [] sf = "SF10" -> 51
          [] sf = "SF11" -> 51
          [] sf = "SF12" -> 51]

DEFAULT_MAX_PAYLOAD == AU915_PAYLOAD_LIMITS["SF10"]

\* meters per degree, AU915CoordinateCompressor.__init__
lat_scale_factor == 111000
lng_scale_factor == 93000

\* -56.5, -17.5, -75.5, -66.5 degrees on the grid
chile_bounds ==
    [min_lat |-> -565 * (DegUnit \div 10),
     max_lat |-> -175 * (DegUnit \div 10),
     min_lng |-> -755 * (DegUnit \div 10),
     max_lng |-> -665 * (DegUnit \div 10)]

validate_coordinates_for_chile(coordinates) ==
    \A i \in 1..Len(coordinates) :
        /\ chile_bounds.min_lat <= coordinates[i].lat
        /\ coordinates[i].lat <= chile_bounds.max_lat
        /\ chile_bounds.min_lng <= coordinates[i].lng
        /\ coordinates[i].lng <= chile_bounds.max_lng

\* the centroid as exact rationals: ref_lat = sum_lat / (n * DegUnit) degrees
calculate_reference_point(coordinates) ==
    [sum_lat |-> SumLat(coordinates),
     sum_lng |-> SumLng(coordinates),
     n       |-> Len(coordinates)]

max_points_possible(max_payload_size, group_id) ==
    FloorDiv(max_payload_size - 9 - Len(group_id), 4)

\* mutant of num_points: the cap of 10 points ("limitar por ESP32") left out
num_points_uncapped(max_payload_size, coordinates, group_id) ==
    Min(Len(coordinates), max_points_possible(max_payload_size, group_id))

num_points(max_payload_size, coordinates, group_id) ==
    Min(Min(Len(coordinates), max_points_possible(max_payload_size, group_id)), 10)

\* (coord - ref) * scale in meters, as the exact fraction num/den.
\* (n*a - sum) / (n*DegUnit) degrees times scale; 1000 is cancelled from
\* scale and DegUnit to stay inside 32-bit integers.
offset_meters(a, sum, n, scale) ==
    [num |-> (n * a - sum) * (scale \div 1000),
     den |-> n * (DegUnit \div 1000)]

\* max(-32767, min(32767, int(round(offset_meters))))
offset_int(a, sum, n, scale, tie) ==
    LET m == offset_meters(a, sum, n, scale)
    IN  Max(-32767, Min(32767, RoundNearest(m.num, m.den, tie)))

\* the loop "for i in range(num_points)": bytes of points i..k
RECURSIVE PackOffsets(_, _, _, _, _)
PackOffsets(coordinates, ref, i, k, tie) ==
    IF i > k THEN <<>>
    ELSE PackI16(offset_int(coordinates[i].lat, ref.sum_lat, ref.n, lat_scale_factor, tie))
         \o PackI16(offset_int(coordinates[i].lng, ref.sum_lng, ref.n, lng_scale_factor, tie))
         \o PackOffsets(coordinates, ref, i + 1, k, tie)

\* "Agregar group_id si hay espacio": the tag cut to the room left
CompressedTag(max_payload_size, body, group_id) ==
    LET group_bytes_available == max_payload_size - Len(body)
    IN  IF group_id # <<>> /\ group_bytes_available > 0
        THEN SliceTo(group_id, group_bytes_available)
        ELSE <<>>

\* AU915CoordinateCompressor(max_payload_size).compress_polygon_coordinates:
\* exc names the exception raised ("" when the payload is returned)
compress_polygon_coordinates(max_payload_size, coordinates, group_id, tie) ==
    LET k    == num_points(max_payload_size, coordinates, group_id)
        kept == SliceTo(coordinates, k)
        ref  == calculate_reference_point(kept)
        body == <<2>>
                \o PackF32(ref.sum_lat, ref.n * DegUnit)
                \o PackF32(ref.sum_lng, ref.n * DegUnit)
                \o <<k>>
                \o PackOffsets(coordinates, ref, 1, k, tie)
        tag  == CompressedTag(max_payload_size, body, group_id)
    IN  IF ~validate_coordinates_for_chile(coordinates)
            THEN [exc |-> "ValueError", payload |-> <<>>]
        ELSE IF kept = <<>>
            \* sum(...) / len([]) in calculate_reference_point
            THEN [exc |-> "ZeroDivisionError", payload |-> <<>>]
        ELSE IF k < 0
            \* payload.append(num_points): byte must be in range(0, 256)
            THEN [exc |-> "ValueError", payload |-> <<>>]
        ELSE IF ~IsAscii(tag)
            THEN [exc |-> "UnicodeEncodeError", payload |-> <<>>]
        ELSE [exc |-> "", payload |-> body \o tag]

\* mutant of CompressorMaxPayload: an unknown rate gets the best-case limit
CompressorMaxPayload_BestDefault(spreading_factor) ==
    IF spreading_factor \in DOMAIN AU915_PAYLOAD_LIMITS
    THEN AU915_PAYLOAD_LIMITS[spreading_factor]
    ELSE AU915_PAYLOAD_LIMITS["SF7"]

\* AU915_PAYLOAD_LIMITS.get(spreading_factor, DEFAULT_MAX_PAYLOAD)
CompressorMaxPayload(spreading_factor) ==
    IF spreading_factor \in DOMAIN AU915_PAYLOAD_LIMITS
    THEN AU915_PAYLOAD_LIMITS[spreading_factor]
    ELSE DEFAULT_MAX_PAYLOAD

create_compressed_polygon_payload(coordinates, group_id, spreading_factor, tie) ==
    compress_polygon_coordinates(CompressorMaxPayload(spreading_factor),
                                 coordinates, group_id, tie)

-----------------------------------------------------------------------------
(* integrations.py: send_geofence_downlink *)

\* mutant of SendMaxPayload: the best-case limit whatever the rate
SendMaxPayload_BestCase(spreading_factor) == AU915_PAYLOAD_LIMITS["SF7"]

\* AU915_PAYLOAD_LIMITS.get(spreading_factor, 51)
SendMaxPayload(spreading_factor) ==
    IF spreading_factor \in DOMAIN AU915_PAYLOAD_LIMITS
    THEN AU915_PAYLOAD_LIMITS[spreading_factor]
    ELSE 51

\* -90 <= lat <= 90 and -180 <= lng <= 180
CircleCoordsValid(c) ==
    /\ -90 * DegUnit <= c.lat /\ c.lat <= 90 * DegUnit
    /\ -180 * DegUnit <= c.lng /\ c.lng <= 180 * DegUnit

\* 10 <= radius <= 65535
CircleRadiusValid(c) == 10 <= c.radius /\ c.radius <= 65535

\* "Agregar group_id si cabe": the tag goes in only when all of it would
\* fit, and then its first 15 characters
UncompressedTag(body, group_id, max_payload) ==
    IF group_id # <<>> /\ Len(body) + Len(group_id) <= max_payload
    THEN SliceTo(group_id, 15)
    ELSE <<>>

CircleBody(c) ==
    <<0>> \o PackF32(c.lat, DegUnit) \o PackF32(c.lng, DegUnit) \o PackU16(c.radius)

RECURSIVE PackPoints(_, _, _)
PackPoints(points, i, k) ==
    IF i > k THEN <<>>
    ELSE PackF32(points[i].lat, DegUnit) \o PackF32(points[i].lng, DegUnit)
         \o PackPoints(points, i + 1, k)

\* original_size = 2 + len(coordinates) * 8 + len(group_id)
original_size(points, group_id) == 2 + Len(points) * 8 + Len(group_id)

\* mutant of UseDirect: the test on the number of points left out
UseDirect_AnyCount(points, group_id, max_payload) ==
    original_size(points, group_id) <= max_payload

\* "Decidir si usar compresion": TRUE = the direct form
UseDirect(points, group_id, max_payload) ==
    original_size(points, group_id) <= max_payload /\ Len(points) <= 6

DirectBody(points) ==
    LET n == Min(Len(points), 6)
    IN  <<1, n>> \o PackPoints(points, 1, n)

\* "Validar tamano final"
ExceedsLimit(frame, max_payload) == Len(frame) > max_payload

\* The frame-building part (lines 59-128): [failed, payload], failed when the
\* function has returned False (or an exception reached the outer handler)
\* before the final size check.
BuildPayload(a, tie) ==
    LET max_payload == SendMaxPayload(a.spreading_factor)
        c           == a.coordinates
    IN  IF a.geofence_type = "circle" THEN
            IF ~CircleCoordsValid(c) \/ ~CircleRadiusValid(c)
                THEN [failed |-> TRUE, payload |-> <<>>]
            ELSE LET body == CircleBody(c)
                     tag  == UncompressedTag(body, a.group_id, max_payload)
                 IN  IF ~IsAscii(tag)
                        THEN [failed |-> TRUE, payload |-> body]
                        ELSE [failed |-> FALSE, payload |-> body \o tag]
        ELSE IF a.geofence_type = "polygon" THEN
            IF Len(c.points) < 3
                THEN [failed |-> TRUE, payload |-> <<>>]
            ELSE IF UseDirect(c.points, a.group_id, max_payload) THEN
                 LET body == DirectBody(c.points)
                     tag  == UncompressedTag(body, a.group_id, max_payload)
                 IN  IF ~IsAscii(tag)
                        THEN [failed |-> TRUE, payload |-> body]
                        ELSE [failed |-> FALSE, payload |-> body \o tag]
            ELSE LET r == create_compressed_polygon_payload(
                              c.points, a.group_id, a.spreading_factor, tie)
                 IN  IF r.exc # ""
                        THEN [failed |-> TRUE, payload |-> <<>>]
                        ELSE [failed |-> FALSE, payload |-> r.payload]
        ELSE [failed |-> FALSE, payload |-> <<>>]

\* outcomes of requests.post: HTTP 200, another status, or an exception
NetOutcomes == {"200", "500", "ConnectionError"}

\* the deviceQueueItem of the POST to /api/devices/{eui}/queue
QueueItem(a, frame, net) ==
    [devEUI    |-> a.device_eui,
     fPort     |-> 10,
     confirmed |-> FALSE,
     frame     |-> frame,
     data      |-> B64Encode(frame),
     net       |-> net]

\* the whole call: what it built, what it posted, what it returned
send_geofence_downlink(a, net, tie) ==
    LET b == BuildPayload(a, tie)
    IN  IF b.failed
            THEN [payload |-> b.payload, posted |-> <<>>, ret |-> FALSE]
        ELSE IF ExceedsLimit(b.payload, SendMaxPayload(a.spreading_factor))
            THEN [payload |-> b.payload, posted |-> <<>>, ret |-> FALSE]
        ELSE [payload |-> b.payload,
              posted  |-> <<QueueItem(a, b.payload, net)>>,
              ret     |-> (net = "200")]

-----------------------------------------------------------------------------
(* chirpstack_service.py: pack_geofence_to_bytes *)

RECURSIVE Reverse(_)
Reverse(s) == IF s = <<>> THEN <<>> ELSE Reverse(Tail(s)) \o <<s[1]>>

\* int(v * 1000000) for the coordinate a / DegUnit degrees.  The product is
\* exact when the coordinate is a multiple of 1/16 degree (exact in binary);
\* otherwise the f64 product is the integer or lands just below it in
\* magnitude, and int() then truncates to one less: short says which.
ScaledInt(a, short) ==
    IF short /\ a % (DegUnit \div 16) # 0
        THEN (IF a > 0 THEN a * 100 - 1 ELSE a * 100 + 1)
        ELSE a * 100

\* struct.pack('>i', v) and struct.pack('>H', v)
PackI32BE(v) == Reverse(PackI32(v))
PackU16BE(v) == Reverse(PackU16(v))

\* the vertices of the polygon branch, value 2i-1 is the latitude of vertex
\* i and value 2i its longitude
RECURSIVE PackVerticesBE(_, _, _)
PackVerticesBE(vertices, fp, i) ==
    IF i > Len(vertices) THEN <<>>
    ELSE PackI32BE(ScaledInt(vertices[i].lat, fp[2 * i - 1]))
         \o PackI32BE(ScaledInt(vertices[i].lng, fp[2 * i]))
         \o PackVerticesBE(vertices, fp, i + 1)

\* pack_geofence_to_bytes(geofence_data): the bytes returned, or the
\* exception that leaves the function (KeyError and TypeError are caught
\* inside; struct.error is not)
pack_geofence_to_bytes(g, fp) ==
    IF g.type = "circle" THEN
        IF g.radius < 0 \/ g.radius > 65535
            THEN [exc |-> "struct.error", payload |-> <<>>]
            ELSE [exc |-> "",
                  payload |-> <<1>> \o PackI32BE(ScaledInt(g.center.lat, fp[1]))
                                    \o PackI32BE(ScaledInt(g.center.lng, fp[2]))
                                    \o PackU16BE(g.radius)]
    ELSE IF g.type = "polygon" THEN
        IF Len(g.coords) > 255
            THEN [exc |-> "struct.error", payload |-> <<>>]
            ELSE [exc |-> "",
                  payload |-> <<2, Len(g.coords)>> \o PackVerticesBE(g.coords, fp, 1)]
    ELSE [exc |-> "", payload |-> <<>>]

\* the geofence_data dict of a geofence
GeofenceData(a) ==
    [type   |-> a.geofence_type,
     center |-> [lat |-> a.coordinates.lat, lng |-> a.coordinates.lng],
     radius |-> a.coordinates.radius,
     coords |-> a.coordinates.points]

\* how many coordinates of the dict are scaled
NumScaled(g) ==
    IF g.type = "circle" THEN 2
    ELSE IF g.type = "polygon" THEN 2 * Len(g.coords)
    ELSE 0

-----------------------------------------------------------------------------
(* downlink_service.py: send_geofence_to_device *)

\* int(v * 10000000) for the coordinate a / DegUnit degrees: exact for a
\* multiple of 1/16 degree, otherwise possibly one short in magnitude
ScaledInt7(a, short) ==
    IF short /\ a % (DegUnit \div 16) # 0
        THEN (IF a > 0 THEN a * 1000 - 1 ELSE a * 1000 + 1)
        ELSE a * 1000

\* the range struct accepts for a format code
FitsCode(code, v) ==
    CASE code = "B" -> 0 <= v /\ v <= 255
      [] code = "H" -> 0 <= v /\ v <= 65535
      [] code = "h" -> -32768 <= v /\ v <= 32767
      [] code = "i" -> TRUE    \* every integer of the model is an i32

\* the little-endian bytes of one value under a format code
PackCode(code, v) ==
    CASE code = "B" -> <<v>>
      [] code = "H" -> PackU16(v)
      [] code = "h" -> PackI16(v)
      [] code = "i" -> PackI32(v)

RECURSIVE PackCodes(_, _)
PackCodes(codes, values) ==
    IF codes = <<>> THEN <<>>
    ELSE PackCode(Head(codes), Head(values)) \o PackCodes(Tail(codes), Tail(values))

\* struct.pack('<' + codes, *values): struct.error when the number of values
\* is not the number of format codes or a value does not fit its code
StructPack(codes, values) ==
    IF Len(codes) # Len(values)
        THEN [exc |-> "struct.error", payload |-> <<>>]
    ELSE IF \E i \in 1..Len(codes) : ~FitsCode(codes[i], values[i])
        THEN [exc |-> "struct.error", payload |-> <<>>]
    ELSE [exc |-> "", payload |-> PackCodes(codes, values)]

\* the format string '<BiihH' of the command frame
CommandFormat == <<"B", "i", "i", "h", "H">>

\* the deviceQueueItem of the command: fPort 2, not confirmed
CommandItem(dev_eui, frame, net) ==
    [devEUI    |-> dev_eui,
     fPort     |-> 2,
     confirmed |-> FALSE,
     frame     |-> frame,
     data      |-> B64Encode(frame),
     net       |-> net]

\* send_geofence_to_device(dev_eui, lat, lng, radius): what it posts and
\* returns.  struct.pack is given the command byte 0x02 and the three
\* values; any exception is caught and answered False.
send_geofence_to_device(dev_eui, lat, lng, radius, net, fp) ==
    LET packed == StructPack(CommandFormat,
                             <<2, ScaledInt7(lat, fp[1]), ScaledInt7(lng, fp[2]), radius>>)
    IN  IF packed.exc # ""
            THEN [posted |-> <<>>, ret |-> FALSE]
            ELSE [posted |-> <<CommandItem(dev_eui, packed.payload, net)>>,
                  ret    |-> (net = "200")]

-----------------------------------------------------------------------------
(* gps_decoder.py: decode_gps_payload *)

\* a str is its code points: "0".."9" 48..57, "A".."F" 65..70, "a".."f"
\* 97..102, space 32, tab 9, newline 10
IsSpace(c) == c \in {9, 10, 11, 12, 13, 32}
IsHexDigit(c) == (48 <= c /\ c <= 57) \/ (65 <= c /\ c <= 70) \/ (97 <= c /\ c <= 102)
HexVal(c) == IF c <= 57 THEN c - 48 ELSE IF c <= 70 THEN c - 55 ELSE c - 87

\* str.strip(): whitespace off both ends
RECURSIVE LStrip(_)
LStrip(s) == IF s # <<>> /\ IsSpace(Head(s)) THEN LStrip(Tail(s)) ELSE s

RECURSIVE RStrip(_)
RStrip(s) ==
    IF s # <<>> /\ IsSpace(s[Len(s)]) THEN RStrip(SubSeq(s, 1, Len(s) - 1)) ELSE s

Strip(s) == RStrip(LStrip(s))

\* str.replace(" ", "")
RemoveSpaces(s) == SelectSeq(s, LAMBDA c : c # 32)

\* bytes.fromhex: two hex digits per byte, ASCII whitespace between bytes is
\* skipped; FromHexOk is FALSE where fromhex raises ValueError
RECURSIVE FromHexOk(_)
FromHexOk(s) ==
    IF s = <<>> THEN TRUE
    ELSE IF IsSpace(s[1]) THEN FromHexOk(Tail(s))
    ELSE /\ Len(s) >= 2
         /\ IsHexDigit(s[1])
         /\ IsHexDigit(s[2])
         /\ FromHexOk(SubSeq(s, 3, Len(s)))

RECURSIVE FromHex(_)
FromHex(s) ==
    IF s = <<>> THEN <<>>
    ELSE IF IsSpace(s[1]) THEN FromHex(Tail(s))
    ELSE <<16 * HexVal(s[1]) + HexVal(s[2])>> \o FromHex(SubSeq(s, 3, Len(s)))

\* alert_levels.get(alert, "UNKNOWN")
AlertName(alert) ==
    CASE alert = 0 -> "SAFE"
      [] alert = 1 -> "WARNING"
      [] alert = 2 -> "CAUTION"
      [] alert = 3 -> "DANGER"
      [] alert = 4 -> "EMERGENCY"
      [] OTHER     -> "UNKNOWN"

\* the function returned None
NoReport ==
    [returned |-> FALSE, latitude |-> 0, longitude |-> 0, altitude |-> 0,
     satellites |-> 0, battery |-> 0, hdop |-> 0, alert |-> "",
     gps_valid |-> FALSE, inside_geofence |-> FALSE]

\* struct.unpack('<iihBBBBB', payload_bytes) and the dict built from it.
\* latitude and longitude stand for lat_raw / 1e7 and lng_raw / 1e7 degrees,
\* hdop for hdop_raw / 10: the numerators are kept.
UnpackReport(b) ==
    [returned        |-> TRUE,
     latitude        |-> UnpackI32(SubSeq(b, 1, 4)),
     longitude       |-> UnpackI32(SubSeq(b, 5, 8)),
     altitude        |-> UnpackH(SubSeq(b, 9, 10)),
     satellites      |-> b[11],
     battery         |-> b[12],
     hdop            |-> b[13],
     alert           |-> AlertName(b[14]),
     gps_valid       |-> (b[15] % 2 = 1),
     inside_geofence |-> ((b[15] \div 2) % 2 = 1)]

\* "Verificar longitud del hex (debe ser 30 caracteres para 15 bytes)"
HexLengthOk(h) == Len(h) = 30

BytesLengthOk(b) == Len(b) = 15

\* mutant of DecodeCleaned: a short frame is decoded as far as it goes, the
\* missing fields read as 0
DecodeCleaned_Lenient(h) ==
    IF Len(h) > 30 THEN NoReport
    ELSE IF ~FromHexOk(h) THEN NoReport
    ELSE IF Len(FromHex(h)) > 15 THEN NoReport
    ELSE UnpackReport([i \in 1..15 |->
            IF i <= Len(FromHex(h)) THEN FromHex(h)[i] ELSE 0])

DecodeCleaned(h) ==
    IF ~HexLengthOk(h) THEN NoReport
    ELSE IF ~FromHexOk(h) THEN NoReport
    ELSE IF ~BytesLengthOk(FromHex(h)) THEN NoReport
    ELSE UnpackReport(FromHex(h))

decode_gps_payload(payload_hex) == DecodeCleaned(RemoveSpaces(Strip(payload_hex)))

-----------------------------------------------------------------------------
(* The collar's side of the uplink: the 15-byte frame of the fixed layout *)

\* i32 lat*1e7 | i32 lng*1e7 | u16 altitude | u8 satellites | u8 battery |
\* u8 hdop tenths | u8 alert level | u8 status flags
ReferenceEncode(t) ==
    PackI32(t.lat) \o PackI32(t.lng) \o PackU16(t.altitude)
    \o <<t.satellites, t.battery, t.hdop, t.alert, t.flags>>

\* bytes.hex()
HexDigit(v) == IF v < 10 THEN 48 + v ELSE 87 + v

RECURSIVE ToHex(_)
ToHex(b) ==
    IF b = <<>> THEN <<>>
    ELSE <<HexDigit(b[1] \div 16), HexDigit(b[1] % 16)>> \o ToHex(Tail(b))

Upper(s) == [i \in 1..Len(s) |-> IF s[i] >= 97 THEN s[i] - 32 ELSE s[i]]

\* the ways the hex text reaches the decoder
\*   "plain"   lower-case hex
\*   "upper"   upper-case hex
\*   "spaced"  a space after every byte, a newline at the end
\*   "tabbed"  two tabs after the first byte
\*   "junk"    the second character is not a hex digit
RECURSIVE Spaced(_)
Spaced(h) == IF Len(h) < 2 THEN h ELSE <<h[1], h[2], 32>> \o Spaced(SubSeq(h, 3, Len(h)))

HexText(frame, style) ==
    CASE style = "plain"  -> ToHex(frame)
      [] style = "upper"  -> Upper(ToHex(frame))
      [] style = "spaced" -> Spaced(ToHex(frame)) \o <<10>>
      [] style = "tabbed" -> IF frame = <<>> THEN <<9, 9>>
                             ELSE SubSeq(ToHex(frame), 1, 2) \o <<9, 9>>
                                  \o SubSeq(ToHex(frame), 3, 2 * Len(frame))
      [] style = "junk"   -> IF frame = <<>> THEN <<103>>
                             ELSE <<ToHex(frame)[1], 103>>
                                  \o SubSeq(ToHex(frame), 3, 2 * Len(frame))

HexStyles == {"plain", "upper", "spaced", "tabbed", "junk"}

\* the frame cut or zero-padded to n bytes
Resize(frame, n) == [i \in 1..n |-> IF i <= Len(frame) THEN frame[i] ELSE 0]

\* longest frame handed to the decoder
MaxFrameLen == 17

Telemetries ==
    [lat        : {-334489000, 0, 900000000, -1},
     lng        : {-706693000, 1800000000},
     altitude   : {0, 100, 32767, 32768, 65535},
     satellites : {0, 255},
     battery    : {87},
     hdop       : {12, 255},
     alert      : {0, 1, 2, 3, 4, 5, 255},
     flags      : {0, 1, 2, 3, 255}]

\* the telemetry whose frames are also cut, padded and re-spelled
Santiago ==
    [lat |-> -334489000, lng |-> -706693000, altitude |-> 570, satellites |-> 9,
     battery |-> 87, hdop |-> 12, alert |-> 3, flags |-> 1]

NoUplink ==
    [telemetry |-> [lat |-> 0, lng |-> 0, altitude |-> 0, satellites |-> 0,
                    battery |-> 0, hdop |-> 0, alert |-> 0, flags |-> 0],
     frame |-> <<>>]

-----------------------------------------------------------------------------
(* Inputs of the downlink calls *)

\* a str of n ASCII letters
Tag(n) == [i \in 1..n |-> 97 + (i % 26)]

\* group names: Group.name is a String(100)
TagLens == {0, 1, 2, 4, 7, 15, 16, 40, 41, 43, 100}

\* a name with a non-ASCII letter (241) early, and one with it past 15
Tags ==
    {Tag(n) : n \in TagLens}
    \cup {<<97, 241, 97, 97>>, [i \in 1..20 |-> IF i = 18 THEN 241 ELSE 97]}

SpreadingFactors == TableRates \cup {"SF13"}

DevEUIs == {"000048ca433cec58"}

Circles ==
    [lat    : {-334489, 95 * DegUnit, -90 * DegUnit},
     lng    : {-706693, 180 * DegUnit + 1},
     radius : {9, 10, 100, 65535, 65536},
     points : {<<>>}]

\* vertex i of a ring of the given shape
\*   "plot":   a paddock in Santiago, a few hundred meters across
\*   "region": spread over several degrees, all inside Chile
\*   "lima":   as "plot", vertex 2 north of Chile (-12 degrees)
\*   "bad":    as "plot", vertex 2 at latitude 95 degrees
Vertex(shape, i) ==
    CASE shape = "plot" ->
            [lat |-> -334489 + 7 * ((i * 5) % 11) - 30,
             lng |-> -706693 + 9 * ((i * 3) % 7) - 20]
      [] shape = "region" ->
            [lat |-> -200000 - 30000 * ((i * 3) % 7),
             lng |-> -700000 + 10000 * ((i * 2) % 5) - 20000]
      [] shape = "lima" ->
            [lat |-> IF i = 2 THEN -12 * DegUnit ELSE -334489 + 7 * ((i * 5) % 11),
             lng |-> -706693 + 9 * ((i * 3) % 7)]
      [] shape = "bad" ->
            [lat |-> IF i = 2 THEN 95 * DegUnit ELSE -334489 + 7 * ((i * 5) % 11),
             lng |-> -706693 + 9 * ((i * 3) % 7)]

Shapes == {"plot", "region", "lima", "bad"}

Polygon(shape, n) == [i \in 1..n |-> Vertex(shape, i)]

Polygons ==
    {[lat |-> 0, lng |-> 0, radius |-> 0, points |-> Polygon(shape, n)] :
        shape \in Shapes, n \in 0..MaxVertices}

Inputs ==
    [device_eui       : DevEUIs,
     coordinates      : Circles,
     geofence_type    : {"circle"},
     group_id         : Tags,
     spreading_factor : SpreadingFactors]
    \cup
    [device_eui       : DevEUIs,
     coordinates      : Polygons,
     geofence_type    : {"polygon", "square"},
     group_id         : Tags,
     spreading_factor : SpreadingFactors]

NoArgs ==
    [device_eui |-> "", coordinates |-> [lat |-> 0, lng |-> 0, radius |-> 0, points |-> <<>>],
     geofence_type |-> "", group_id |-> <<>>, spreading_factor |-> ""]

-----------------------------------------------------------------------------
(* device_service.py: the position store *)

\* an Optional[bool] is one of the strings "True", "False", "None"
OptBool == {"True", "False", "None"}

\* Python truthiness of an Optional[bool]
Truthy(v) == v = "True"

\* Geofence.radius of a row whose radius column is NULL
NoRadius == -1

\* rows of table devices (ids), and Device.groups of each: device 1 is in
\* two groups, device 2 in none, devices 3 and 4 in groups 1 and 3 / 1
Devices == 1..4

DeviceGroups(d) ==
    CASE d = 1 -> <<1, 2>>
      [] d = 2 -> <<>>
      [] d = 3 -> <<1, 3>>
      [] d = 4 -> <<1>>

\* rows of table geofences of each group: group 1 has one inactive polygon,
\* group 2 an active polygon and an active circle of 100 m, group 3 an
\* active circle stored without a radius (Coordinates.radius is Optional)
GroupGeofences(g) ==
    CASE g = 1 -> {[id |-> 1, geofence_type |-> "polygon", radius |-> NoRadius, active |-> FALSE]}
      [] g = 2 -> {[id |-> 2, geofence_type |-> "polygon", radius |-> NoRadius, active |-> TRUE],
                   [id |-> 3, geofence_type |-> "circle", radius |-> 100, active |-> TRUE]}
      [] g = 3 -> {[id |-> 4, geofence_type |-> "circle", radius |-> NoRadius, active |-> TRUE]}

NoGeofence == [id |-> 0, geofence_type |-> "", radius |-> NoRadius, active |-> FALSE]

\* select(Geofence).where(group_id == g, active == True).limit(1): the rows
\* the query may return as its first (there is no ORDER BY)
ActiveGeofences(g) == {f \in GroupGeofences(g) : f.active}

\* check_point_in_geofence builds a query only for a circle with a radius
\* and for a polygon
HasQuery(geofence) ==
    \/ geofence.geofence_type = "circle" /\ geofence.radius # NoRadius
    \/ geofence.geofence_type = "polygon"

\* check_point_in_geofence: st is what PostGIS answers to the query
\* (ST_DWithin / ST_Contains: "True", "False" or NULL = "None");
\* `return is_inside or False`
check_point_in_geofence(geofence, st) ==
    IF ~HasQuery(geofence) THEN "False"
    ELSE IF Truthy(st) THEN "True" ELSE "False"

\* `if gps_valid and lat != 0.0 and lng != 0.0`
ShouldEvaluate(lat, lng, gps_valid) == Truthy(gps_valid) /\ lat # 0 /\ lng # 0

\* DevicePosition(device_id, location, rssi, snr, inside_geofence)
PositionRow(u) == [lat |-> u.lat, lng |-> u.lng, inside_geofence |-> u.inside_geofence]

\* get_devices: the newest row of the device (order_by time desc, limit 1)
\* and DeviceDetailed.current_inside_geofence
HasLastPosition(rows) == rows # <<>>
current_inside_geofence(rows) ==
    IF HasLastPosition(rows) THEN rows[Len(rows)].inside_geofence ELSE "None"

\* get_devices: the first group of the device, in order, that has an active
\* geofence (0: none has)
FirstGeofencedGroup(d) ==
    LET groups == DeviceGroups(d)
    IN  IF \E i \in 1..Len(groups) : ActiveGeofences(groups[i]) # {}
            THEN CHOOSE i \in 1..Len(groups) :
                    /\ ActiveGeofences(groups[i]) # {}
                    /\ \A j \in 1..(i - 1) : ActiveGeofences(groups[j]) = {}
            ELSE 0

\* get_devices: DeviceDetailed.geofence_status of a device whose position
\* rows are rows.  Every row has a location, so a device with a row and a
\* geofence is "Dentro" if is_inside else "Fuera".
geofence_status(d, rows) ==
    IF FirstGeofencedGroup(d) = 0 THEN "Sin Geocerca"
    ELSE IF ~HasLastPosition(rows) THEN "Sin Ubicacion"
    ELSE IF Truthy(rows[Len(rows)].inside_geofence) THEN "Dentro"
    ELSE "Fuera"

\* a worker that is not running add_device_position
IdleUnit ==
    [pc |-> "idle", device_id |-> 0, lat |-> 0, lng |-> 0, gps_valid |-> "None",
     groups |-> <<>>, gi |-> 0, geofence |-> NoGeofence, evaluated |-> FALSE,
     inside_geofence |-> "None"]

\* workers of the server that may run add_device_position at the same time
MaxUnits == 2
Units == 1..MaxUnits

\* position reports handled in one run of the model
MaxReports == 3

\* positions reported: Santiago, the null island, 0.0005 degrees from it,
\* and a point on the equator (latitude 0, longitude of Santiago)
TrackPoints ==
    {[lat |-> -334489, lng |-> -706693], [lat |-> 0, lng |-> 0],
     [lat |-> 5, lng |-> 5], [lat |-> 0, lng |-> -706693]}

\* base64.b64decode of a str of sextets: a length that is no multiple of
\* four raises binascii.Error
B64DecodeOk(s) == Len(s) % 4 = 0

RECURSIVE B64Decode(_)
B64Decode(s) ==
    IF s = <<>> THEN <<>>
    ELSE IF s[3] = 64 THEN
        << s[1] * 4 + (s[2] \div 16) >>
    ELSE IF s[4] = 64 THEN
        << s[1] * 4 + (s[2] \div 16), (s[2] % 16) * 16 + (s[3] \div 4) >>
    ELSE
        << s[1] * 4 + (s[2] \div 16), (s[2] % 16) * 16 + (s[3] \div 4),
           (s[3] % 4) * 64 + s[4] >>
        \o B64Decode(SubSeq(s, 5, Len(s)))

\* process_gps_uplink: nothing is stored and nothing is sent; what is left
\* of the call is whether it logged the "fuera de geocerca" warning
\* (alert_level = data[10] >= 3)
process_gps_uplink(data) == Len(data) >= 12 /\ data[11] >= 3

\* process_uplink: the response, and whether the GPS branch logged the warning
process_uplink(p) ==
    [status |-> "ok",
     device |-> p.devEui,
     alerted |-> /\ p.data # <<>>
                 /\ B64DecodeOk(p.data)
                 /\ p.fPort = 1
                 /\ process_gps_uplink(B64Decode(p.data))]

\* bodies of the webhook request: the collar's frame whole, cut to 12 and
\* 11 bytes and empty, with few and with many satellites, and a text that
\* is not base64
UplinkFrames ==
    {Resize(ReferenceEncode([Santiago EXCEPT !.satellites = s]), n) :
        s \in {0, 9}, n \in {0, 11, 12, 15}}

UplinkBodies ==
    [devEui : DevEUIs, fPort : {0, 1, 2, 3},
     data : {B64Encode(f) : f \in UplinkFrames} \cup {<<0, 0, 0>>}]

NoWebhook == [status |-> "", device |-> ""]

TrackingIdle ==
    /\ positions = [d \in Devices |-> <<>>]
    /\ units = [u \in Units |-> IdleUnit]
    /\ webhook = NoWebhook
    /\ warned = {}

-----------------------------------------------------------------------------
(* The HTTP API: requests, background tasks and the devices table *)

\* DEFAULT_DEVICE_EUI of api/geofences.py
DEFAULT_DEVICE_EUI == "000048ca433cec58"

\* the device_eui query parameter of a request: "" when it is not given
QueryEUIs == {"", "70b3d57ed8003421"}

\* mutant of TargetDevice: the device_eui of the request is ignored
TargetDevice_AlwaysDefault(device_eui) == DEFAULT_DEVICE_EUI

\* target_device = device_eui or DEFAULT_DEVICE_EUI
TargetDevice(device_eui) ==
    IF device_eui = "" THEN DEFAULT_DEVICE_EUI ELSE device_eui

\* the str "default" and the str "api" as code points
DefaultGroupName == <<100, 101, 102, 97, 117, 108, 116>>
ApiGroupName == <<97, 112, 105>>

\* table device_groups holds one group, id 1; geofences.group_id is a
\* foreign key to it
GroupIds == {1}
RequestGroupIds == {0, 1, 2}

\* group_name = "default", replaced by group.name when group_id is truthy
\* and group_service.get_group finds the group
GroupName(group_id, name) ==
    IF group_id # 0 /\ group_id \in GroupIds THEN name ELSE DefaultGroupName

\* send_geofence_downlink takes device_eui, coordinates, geofence_type,
\* group_id and spreading_factor: a call with more positional arguments
\* raises TypeError before the function body runs
MaxPositional == 5
BindArguments(argc) == IF argc > MaxPositional THEN "TypeError" ELSE ""

\* a task of BackgroundTasks: send_geofence_downlink with argc positional
\* arguments; call holds the geofence the caller passes
Task(argc, device_eui, coordinates, geofence_type, group_id) ==
    [argc  |-> argc,
     state |-> "pending",
     call  |-> [device_eui       |-> device_eui,
                coordinates      |-> coordinates,
                geofence_type    |-> geofence_type,
                group_id         |-> group_id,
                spreading_factor |-> "SF10"]]

NoRequest ==
    [n |-> 0, op |-> "", device_eui |-> "", geofence_type |-> "", id |-> 0, dev_eui |-> <<>>]

NoDevices == [rows |-> {}, seq |-> 0, inserts |-> 0]

ApiIdle ==
    /\ request = NoRequest
    /\ tasks = <<>>
    /\ devices = NoDevices

\* the first task that has not run yet (0: none)
FirstPending ==
    IF \E i \in 1..Len(tasks) : tasks[i].state = "pending"
        THEN CHOOSE i \in 1..Len(tasks) :
                /\ tasks[i].state = "pending"
                /\ \A j \in 1..(i - 1) : tasks[j].state # "pending"
        ELSE 0

-----------------------------------------------------------------------------
(* Downlink specification: a call is made with some arguments and runs *)

UplinkIdle == uplink = NoUplink /\ hexin = <<>> /\ upc = "idle" /\ report = NoReport

Init ==
    /\ args \in Inputs
    /\ pc = "ready"
    /\ payload = <<>>
    /\ posted = <<>>
    /\ ret = FALSE
    /\ raised = ""
    /\ response = ""
    /\ stored = <<>>
    /\ UplinkIdle
    /\ TrackingIdle
    /\ ApiIdle

\* geofence_service.create_geofence builds the geometry first: shapely's
\* Polygon refuses a ring of fewer than 4 coordinates (1 or 2 vertices, the
\* ring closed by repeating the first)
GeometryOk(a) ==
    a.geofence_type = "polygon" => Len(a.coordinates.points) \notin {1, 2}

\* the row geofence_service.create_geofence inserts
GeofenceRow(a) ==
    [geofence_type |-> a.geofence_type, coordinates |-> a.coordinates, active |-> TRUE]

\* POST /geofences/ (create_geofence) up to its response.  The body is a
\* GeofenceCreate: a geofence_type outside the enum is answered 422 by the
\* schema; a geometry shapely refuses ends the handler with an exception
\* (500); otherwise the row is committed, send_geofence_downlink is added to
\* the background tasks with the four arguments device, coordinates, type
\* and group name (so the data rate is the default "SF10"), and the stored
\* geofence is answered with status 200.
\* The geofence of the body is that of args, its group is group_id (named
\* args.group_id when it exists) and device_eui is the query parameter.  A
\* group_id that is not in device_groups fails the commit (foreign key).
CreateGeofence ==
    /\ pc = "ready"
    /\ args.spreading_factor = "SF10"
    /\ \E device_eui \in QueryEUIs, group_id \in RequestGroupIds :
        /\ request' = [NoRequest EXCEPT !.n = request.n + 1, !.op = "create",
                            !.device_eui = device_eui,
                            !.geofence_type = args.geofence_type, !.id = group_id]
        /\ IF args.geofence_type \notin {"circle", "polygon"}
              THEN response' = "422" /\ stored' = stored /\ pc' = "answered"
                   /\ tasks' = tasks
           ELSE IF ~GeometryOk(args) \/ group_id \notin GroupIds
              THEN response' = "500" /\ stored' = stored /\ pc' = "answered"
                   /\ tasks' = tasks
           ELSE /\ stored' = Append(stored, GeofenceRow(args))
                /\ tasks' = Append(tasks,
                        Task(4, TargetDevice(device_eui), args.coordinates,
                             args.geofence_type, GroupName(group_id, args.group_id)))
                /\ response' = "200"
                /\ pc' = "scheduled"
    /\ UNCHANGED <<args, payload, posted, ret, raised, devices, upVars, trackVars>>

\* Starlette runs the first pending background task after the response has
\* been sent: send_geofence_downlink(*task arguments).  A call the
\* signature does not accept raises TypeError and posts nothing.
RunBackgroundTask ==
    /\ FirstPending # 0
    /\ LET i == FirstPending
           t == tasks[i]
       IN  IF BindArguments(t.argc) # ""
            THEN /\ tasks' = [tasks EXCEPT ![i].state = "failed"]
                 /\ raised' = BindArguments(t.argc)
                 /\ pc' = "rejected"
                 /\ UNCHANGED <<args, payload, posted, ret>>
            ELSE /\ tasks' = [tasks EXCEPT ![i].state = "ran"]
                 /\ args' = t.call
                 /\ \E net \in NetOutcomes, tie \in TieBreaks :
                        LET r == send_geofence_downlink(t.call, net, tie)
                        IN  /\ payload' = r.payload
                            /\ posted' = posted \o r.posted
                            /\ ret' = r.ret
                 /\ pc' = "sent"
                 /\ raised' = ""
    /\ UNCHANGED <<response, stored, request, devices, upVars, trackVars>>

\* send_geofence_downlink called directly
SendGeofenceDownlink ==
    /\ pc = "ready"
    /\ \E net \in NetOutcomes, tie \in TieBreaks :
        LET r == send_geofence_downlink(args, net, tie)
        IN  /\ payload' = r.payload
            /\ posted' = r.posted
            /\ ret' = r.ret
    /\ pc' = "sent"
    /\ raised' = ""
    /\ UNCHANGED <<args, response, stored, upVars, trackVars, apiVars>>

\* create_compressed_polygon_payload called on its own
CreateCompressedPolygonPayload ==
    /\ pc = "ready"
    /\ args.geofence_type = "polygon"
    /\ \E tie \in TieBreaks :
        LET r == create_compressed_polygon_payload(
                    args.coordinates.points, args.group_id, args.spreading_factor, tie)
        IN  /\ payload' = r.payload
            /\ raised' = r.exc
    /\ pc' = "compressed"
    /\ UNCHANGED <<args, posted, ret, response, stored, upVars, trackVars, apiVars>>

\* pack_geofence_to_bytes called on the geofence
PackGeofenceToBytes ==
    /\ pc = "ready"
    /\ Len(args.coordinates.points) <= MaxPackVertices
    /\ \E fp \in [1..NumScaled(GeofenceData(args)) -> BOOLEAN] :
        LET r == pack_geofence_to_bytes(GeofenceData(args), fp)
        IN  /\ payload' = r.payload
            /\ raised' = r.exc
    /\ pc' = "packed"
    /\ UNCHANGED <<args, posted, ret, response, stored, upVars, trackVars, apiVars>>

\* send_geofence_to_device called with the centre and radius of a circle
SendGeofenceToDevice ==
    /\ pc = "ready"
    /\ args.geofence_type = "circle"
    /\ \E net \in NetOutcomes, fp \in [1..2 -> BOOLEAN] :
        LET r == send_geofence_to_device(args.device_eui, args.coordinates.lat,
                                         args.coordinates.lng, args.coordinates.radius,
                                         net, fp)
        IN  /\ posted' = r.posted
            /\ ret' = r.ret
    /\ pc' = "commanded"
    /\ raised' = ""
    /\ UNCHANGED <<args, payload, response, stored, upVars, trackVars, apiVars>>

Next ==
    \/ SendGeofenceToDevice
    \/ SendGeofenceDownlink
    \/ CreateCompressedPolygonPayload
    \/ PackGeofenceToBytes
    \/ CreateGeofence
    \/ RunBackgroundTask

Spec == Init /\ [][Next]_vars

-----------------------------------------------------------------------------
(* Uplink specification: a frame arrives as hex text and is decoded *)

DownlinkIdle ==
    /\ args = NoArgs
    /\ pc = "idle"
    /\ payload = <<>>
    /\ posted = <<>>
    /\ ret = FALSE
    /\ raised = ""
    /\ response = ""
    /\ stored = <<>>
    /\ ApiIdle

UplinkInit ==
    /\ DownlinkIdle
    /\ TrackingIdle
    /\ upc = "ready"
    /\ report = NoReport
    /\ \/ \E t \in Telemetries :
            /\ uplink = [telemetry |-> t, frame |-> ReferenceEncode(t)]
            /\ hexin = HexText(ReferenceEncode(t), "plain")
       \/ \E n \in 0..MaxFrameLen, style \in HexStyles :
            /\ uplink = [telemetry |-> Santiago,
                         frame |-> Resize(ReferenceEncode(Santiago), n)]
            /\ hexin = HexText(Resize(ReferenceEncode(Santiago), n), style)

DecodeGpsPayload ==
    /\ upc = "ready"
    /\ report' = decode_gps_payload(hexin)
    /\ upc' = "decoded"
    /\ UNCHANGED <<uplink, hexin, downVars, trackVars, apiVars>>

UplinkNext == DecodeGpsPayload

SpecUplink == UplinkInit /\ [][UplinkNext]_vars

-----------------------------------------------------------------------------
(* Tracking specification: position reports are stored by concurrent calls *)
(* of add_device_position (a step per await), uplinks reach the webhook    *)

InFlight(u) == units[u].pc # "idle"

RECURSIVE TotalRows(_)
TotalRows(ds) ==
    IF ds = {} THEN 0
    ELSE LET d == CHOOSE x \in ds : TRUE
         IN  Len(positions[d]) + TotalRows(ds \ {d})

Handled == TotalRows(Devices) + Cardinality({u \in Units : InFlight(u)})

TrackInit == DownlinkIdle /\ UplinkIdle /\ TrackingIdle

\* add_device_position is called: the point is built and the guard of line
\* 123 decides whether the device is looked up (await get_device) or the row
\* is written at once
StartWith(u, devs, pts, max) ==
    /\ ~InFlight(u)
    /\ Handled < max
    /\ \E d \in devs, p \in pts, v \in OptBool :
        units' = [units EXCEPT ![u] =
            [IdleUnit EXCEPT
                !.pc = IF ShouldEvaluate(p.lat, p.lng, v) THEN "get_device" ELSE "commit",
                !.device_id = d, !.lat = p.lat, !.lng = p.lng, !.gps_valid = v]]
    /\ UNCHANGED <<positions, webhook, warned, downVars, upVars, apiVars>>

AddDevicePositionStart(u) == StartWith(u, Devices, TrackPoints, MaxReports)

\* get_device returned: `if device and device.groups`
AddDevicePositionGetDevice(u) ==
    /\ units[u].pc = "get_device"
    /\ units' = [units EXCEPT ![u] =
            [@ EXCEPT !.groups = DeviceGroups(units[u].device_id),
                      !.gi = 1,
                      !.pc = IF DeviceGroups(units[u].device_id) = <<>>
                                THEN "commit" ELSE "find_geofence"]]
    /\ UNCHANGED <<positions, webhook, warned, downVars, upVars, apiVars>>

\* the geofence query of one group returned: no active geofence moves to
\* the next group; one that has no query is answered False on the spot;
\* otherwise the containment query is sent
AddDevicePositionFindGeofence(u) ==
    /\ units[u].pc = "find_geofence"
    /\ LET g == units[u].groups[units[u].gi]
       IN  IF ActiveGeofences(g) = {}
              THEN units' = [units EXCEPT ![u] =
                    [@ EXCEPT !.gi = @ + 1,
                              !.pc = IF units[u].gi < Len(units[u].groups)
                                        THEN "find_geofence" ELSE "commit"]]
              ELSE \E f \in ActiveGeofences(g) :
                    units' = [units EXCEPT ![u] =
                        [@ EXCEPT !.geofence = f,
                                  !.evaluated = TRUE,
                                  !.inside_geofence =
                                        IF HasQuery(f) THEN @
                                        ELSE check_point_in_geofence(f, "None"),
                                  !.pc = IF HasQuery(f) THEN "check" ELSE "commit"]]
    /\ UNCHANGED <<positions, webhook, warned, downVars, upVars, apiVars>>

\* the containment query returned
AddDevicePositionCheck(u) ==
    /\ units[u].pc = "check"
    /\ \E st \in OptBool :
        units' = [units EXCEPT ![u] =
            [@ EXCEPT !.inside_geofence = check_point_in_geofence(units[u].geofence, st),
                      !.pc = "commit"]]
    /\ UNCHANGED <<positions, webhook, warned, downVars, upVars, apiVars>>

\* db.add, commit, refresh, return
AddDevicePositionCommit(u) ==
    /\ units[u].pc = "commit"
    /\ positions' = [positions EXCEPT ![units[u].device_id] =
                        Append(@, PositionRow(units[u]))]
    /\ units' = [units EXCEPT ![u] = IdleUnit]
    /\ UNCHANGED <<webhook, warned, downVars, upVars, apiVars>>

\* POST /webhook/uplink
ProcessUplink ==
    /\ \E p \in UplinkBodies :
        /\ webhook' = [status |-> process_uplink(p).status,
                       device |-> process_uplink(p).device]
        /\ warned' = IF process_uplink(p).alerted
                        THEN warned \cup {p.devEui} ELSE warned
    /\ UNCHANGED <<positions, units, downVars, upVars, apiVars>>

TrackNext ==
    \E u \in Units :
        \/ AddDevicePositionStart(u)
        \/ AddDevicePositionGetDevice(u)
        \/ AddDevicePositionFindGeofence(u)
        \/ AddDevicePositionCheck(u)
        \/ AddDevicePositionCommit(u)

SpecTracking == TrackInit /\ [][TrackNext]_vars

-----------------------------------------------------------------------------
(* Patrol specification: one collar (device 1) reports from Santiago, its  *)
(* uplinks reach the webhook and its positions are stored one at a time    *)

\* reports of the one collar handled in one run
MaxPatrolReports == 6

PatrolReport == StartWith(1, {1}, {[lat |-> -334489, lng |-> -706693]}, MaxPatrolReports)

PatrolNext ==
    \/ PatrolReport
    \/ AddDevicePositionGetDevice(1)
    \/ AddDevicePositionFindGeofence(1)
    \/ AddDevicePositionCheck(1)
    \/ AddDevicePositionCommit(1)
    \/ ProcessUplink

SpecPatrol == TrackInit /\ [][PatrolNext]_vars

-----------------------------------------------------------------------------
(* API specification: HTTP requests are handled one after another and the  *)
(* background tasks they add run after their responses                     *)

\* the geofences table holds a circle and a polygon of group 1
StoredGeofences ==
    << [geofence_type |-> "circle",
        coordinates   |-> [lat |-> -334489, lng |-> -706693, radius |-> 100, points |-> <<>>],
        active        |-> TRUE],
       [geofence_type |-> "polygon",
        coordinates   |-> [lat |-> 0, lng |-> 0, radius |-> 0, points |-> Polygon("plot", 3)],
        active        |-> TRUE] >>

ApiInit ==
    /\ args = NoArgs
    /\ pc = "idle"
    /\ payload = <<>>
    /\ posted = <<>>
    /\ ret = FALSE
    /\ raised = ""
    /\ response = ""
    /\ stored = StoredGeofences
    /\ UplinkIdle
    /\ TrackingIdle
    /\ ApiIdle

\* the device of the path of POST /send-geofence/{device_eui}
PathEUIs == {"000048CA433CEC58", "70b3d57ed8003421"}

\* lat, lng and radius of the query: test_rapido's centre (-37.3464,
\* -72.9150, 150 m), Santiago, and the default radius 100
EndpointCircles ==
    [lat    : {-373464, -334489},
     lng    : {-729150},
     radius : {100, 150},
     points : {<<>>}]

\* POST /send-geofence/{device_eui}: FastAPI injects background_tasks, so
\* send_geofence_downlink(device_eui, lat, lng, radius, "circle", "api") is
\* added as a task, six positional arguments, and 200 is answered
SendGeofenceEndpoint ==
    /\ request.n < MaxRequests
    /\ \E device_eui \in PathEUIs, c \in EndpointCircles :
        /\ request' = [NoRequest EXCEPT !.n = request.n + 1, !.op = "send-geofence",
                            !.device_eui = device_eui, !.geofence_type = "circle"]
        /\ tasks' = Append(tasks, Task(6, device_eui, c, "circle", ApiGroupName))
    /\ response' = "200"
    /\ UNCHANGED <<args, pc, payload, posted, ret, raised, stored, devices,
                   upVars, trackVars>>

\* bodies of PUT /geofences/{id}
UpdateBodies ==
    { [geofence_type |-> "circle",
       coordinates   |-> [lat |-> -373464, lng |-> -729150, radius |-> 150, points |-> <<>>]],
      [geofence_type |-> "polygon",
       coordinates   |-> [lat |-> 0, lng |-> 0, radius |-> 0, points |-> Polygon("plot", 4)]],
      [geofence_type |-> "polygon",
       coordinates   |-> [lat |-> 0, lng |-> 0, radius |-> 0, points |-> Polygon("plot", 2)]] }

\* Geofence.coordinates of a row read back: a dict for a circle (a Point
\* geometry), a list of dicts for a polygon
CoordinatesType(row) == IF row.geofence_type = "circle" THEN "dict" ELSE "list"

\* getattr(value, "lat"): a dict or a list has no attribute lat
GetAttrLat(type) == IF type \in {"dict", "list"} THEN "AttributeError" ELSE ""

\* the tasks update_geofence adds for the updated row: the arguments of
\* add_task are evaluated first, updated_geofence.coordinates.lat among
\* them, and an exception there is caught and logged
UpdateTasks(row, device_eui) ==
    IF row.geofence_type # "circle" THEN <<>>
    ELSE IF GetAttrLat(CoordinatesType(row)) # "" THEN <<>>
    ELSE <<Task(6, TargetDevice(device_eui), row.coordinates, "circle", DefaultGroupName)>>

\* PUT /geofences/{geofence_id}: 404 for an unknown id; the service writes
\* the row (an exception of shapely ends the request with 500); for a
\* circle the send is added as a task; the updated row is answered
UpdateGeofence ==
    /\ request.n < MaxRequests
    /\ \E geofence_id \in 1..(Len(stored) + 1), body \in UpdateBodies,
          device_eui \in QueryEUIs :
        /\ request' = [NoRequest EXCEPT !.n = request.n + 1, !.op = "update",
                            !.device_eui = device_eui,
                            !.geofence_type = body.geofence_type, !.id = geofence_id]
        /\ IF geofence_id > Len(stored)
              THEN response' = "404" /\ UNCHANGED <<stored, tasks>>
           ELSE IF ~GeometryOk(body)
              THEN response' = "500" /\ UNCHANGED <<stored, tasks>>
           ELSE /\ stored' = [stored EXCEPT ![geofence_id] = GeofenceRow(body)]
                /\ tasks' = tasks \o UpdateTasks(GeofenceRow(body), device_eui)
                /\ response' = "200"
    /\ UNCHANGED <<args, pc, payload, posted, ret, raised, devices, upVars, trackVars>>

\* str.upper() on code points: "a".."z" become "A".."Z"
UpperChar(c) == IF 97 <= c /\ c <= 122 THEN c - 32 ELSE c
StrUpper(str) == [i \in 1..Len(str) |-> UpperChar(str[i])]

\* DevEUIs a client registers: "000048ca433cec58", "000048CA433CEC58" and
\* "70B3D57ED8003421"
RegisterEUIs ==
    { <<48, 48, 48, 48, 52, 56, 99, 97, 52, 51, 51, 99, 101, 99, 53, 56>>,
      <<48, 48, 48, 48, 52, 56, 67, 65, 52, 51, 51, 67, 69, 67, 53, 56>>,
      <<55, 48, 66, 51, 68, 53, 55, 69, 68, 56, 48, 48, 51, 52, 50, 49>> }

\* the dev_eui column of the rows of table devices
StoredEUIs == {row.dev_eui : row \in devices.rows}

\* get_device_by_eui: WHERE dev_eui == the str as given (the comparison of
\* the database is case-sensitive)
get_device_by_eui(dev_eui) == {row \in devices.rows : row.dev_eui = dev_eui}

\* POST /devices/: 400 when get_device_by_eui finds the DevEUI; otherwise
\* create_device inserts the upper-cased DevEUI, and the unique constraint
\* of the column turns a second row of the same DevEUI into an
\* IntegrityError (500).  The id sequence advances on every INSERT.
CreateDevice ==
    /\ request.n < MaxRequests
    /\ \E dev_eui \in RegisterEUIs :
        /\ request' = [NoRequest EXCEPT !.n = request.n + 1, !.op = "register",
                            !.dev_eui = dev_eui]
        /\ IF get_device_by_eui(dev_eui) # {}
              THEN response' = "400" /\ devices' = devices
           ELSE IF StrUpper(dev_eui) \in StoredEUIs
              THEN /\ response' = "500"
                   /\ devices' = [devices EXCEPT !.seq = devices.seq + 1,
                                                  !.inserts = devices.inserts + 1]
           ELSE /\ response' = "200"
                /\ devices' = [rows    |-> devices.rows \cup
                                    {[id |-> devices.seq + 1, dev_eui |-> StrUpper(dev_eui)]},
                               seq     |-> devices.seq + 1,
                               inserts |-> devices.inserts + 1]
    /\ UNCHANGED <<args, pc, payload, posted, ret, raised, stored, tasks,
                   upVars, trackVars>>

\* delete_device: the row is deleted when get_device finds it, and True is
\* returned in both cases
delete_device(device_id) ==
    [rows    |-> {row \in devices.rows : row.id # device_id},
     success |-> TRUE]

\* DELETE /devices/{device_id}: 404 when delete_device reports no success,
\* 204 otherwise
DeleteDevice ==
    /\ request.n < MaxRequests
    /\ \E device_id \in 1..(devices.seq + 1) :
        LET r == delete_device(device_id)
        IN  /\ request' = [NoRequest EXCEPT !.n = request.n + 1, !.op = "delete",
                                !.id = device_id]
            /\ devices' = [devices EXCEPT !.rows = r.rows]
            /\ response' = IF r.success THEN "204" ELSE "404"
    /\ UNCHANGED <<args, pc, payload, posted, ret, raised, stored, tasks,
                   upVars, trackVars>>

ApiNext ==
    \/ SendGeofenceEndpoint
    \/ UpdateGeofence
    \/ RunBackgroundTask
    \/ CreateDevice
    \/ DeleteDevice

\* every task added to BackgroundTasks is run once its response is out
SpecApi == ApiInit /\ [][ApiNext]_vars /\ WF_vars(RunBackgroundTask)

-----------------------------------------------------------------------------
(* Reading a frame back, as the device does *)

\* int16 from two little-endian bytes
UnpackI16(b0, b1) ==
    IF b0 + 256 * b1 >= 32768 THEN b0 + 256 * b1 - 65536 ELSE b0 + 256 * b1

\* a compressed frame: byte 10 is the count, offset pair i starts at 7 + 4*i
CountByte(f) == f[10]
LatOffsetAt(f, i) == UnpackI16(f[7 + 4 * i], f[8 + 4 * i])
LngOffsetAt(f, i) == UnpackI16(f[9 + 4 * i], f[10 + 4 * i])

IsPrefix(s, t) == Len(s) <= Len(t) /\ s = SubSeq(t, 1, Len(s))

\* the frame the call under way posted, if any
HasPosted == pc = "sent" /\ posted # <<>>
PostedFrame == posted[1].frame

\* the compressed frame the call under way produced, if any: posted by
\* send_geofence_downlink or returned by create_compressed_polygon_payload
HasCompressed ==
    \/ pc = "compressed" /\ raised = ""
    \/ /\ HasPosted
       /\ args.geofence_type = "polygon"
       /\ PostedFrame[1] = 2
CompressedFrame == IF pc = "compressed" THEN payload ELSE PostedFrame

InTable == args.spreading_factor \in TableRates
Budget == AU915_PAYLOAD_LIMITS[args.spreading_factor]
NumInput == Len(args.coordinates.points)
TagLen == Len(args.group_id)

-----------------------------------------------------------------------------
(* Claims *)

\* C1: for every data rate of the budget table and every geofence input, a
\* frame that send_geofence_downlink posts to the ChirpStack queue is no
\* longer than the rate's budget; when the frame it built is longer, nothing
\* is posted and the call returns False.
C1_BudgetEnforced ==
    (pc = "sent" /\ InTable) =>
        /\ \A i \in 1..Len(posted) : Len(posted[i].frame) <= Budget
        /\ Len(payload) > Budget => (posted = <<>> /\ ret = FALSE)

\* C1 witness: a posted polygon frame that fills the 51-byte budget exactly
C1_Witness ==
    /\ HasPosted
    /\ args.spreading_factor = "SF10"
    /\ args.geofence_type = "polygon"
    /\ Len(PostedFrame) = 51
    /\ ret = TRUE

\* C2: a posted polygon frame has type byte 1 only when the direct encoding
\* (2 + 8 per vertex + tag) fits the budget and there are at most 6 vertices;
\* whenever the direct form does not fit or there are more than 6 vertices,
\* a posted frame has type byte 2.
C2_FormSelection ==
    (HasPosted /\ InTable /\ args.geofence_type = "polygon") =>
        /\ PostedFrame[1] \in {1, 2}
        /\ PostedFrame[1] = 1 =>
              (2 + 8 * NumInput + TagLen <= Budget /\ NumInput <= 6)
        /\ (2 + 8 * NumInput + TagLen > Budget \/ NumInput > 6) =>
              PostedFrame[1] = 2

\* C2 witness: the 10-vertex polygon at budget 51 with a 7-character tag is
\* posted in the compressed form
C2_Witness ==
    /\ HasPosted
    /\ args.geofence_type = "polygon"
    /\ NumInput = 10
    /\ InTable
    /\ Budget = 51
    /\ TagLen = 7
    /\ PostedFrame[1] = 2

\* C3: in every compressed frame the count byte equals
\* min(input_count, floor((max_bytes - 9 - |tag|) / 4), 10), exactly that
\* many offset pairs follow it (what comes after them is a prefix of the
\* tag), and the pairs are those of the first count input vertices in input
\* order: the offset of vertex i differs from the offset of vertex 1 by
\* their coordinate difference in meters, to within rounding (1 m), unless
\* one of the two is clamped.
C3_CompressedCount ==
    (HasCompressed /\ InTable) =>
        LET f   == CompressedFrame
            cnt == Min(Min(NumInput, FloorDiv(Budget - 9 - TagLen, 4)), 10)
            pts == args.coordinates.points
        IN  /\ CountByte(f) = cnt
            /\ Len(f) >= 10 + 4 * cnt
            /\ IsPrefix(SubSeq(f, 11 + 4 * cnt, Len(f)), args.group_id)
            /\ \A i \in 1..cnt :
                /\ (Abs(LatOffsetAt(f, i)) < 32767 /\ Abs(LatOffsetAt(f, 1)) < 32767) =>
                      Abs(10 * (LatOffsetAt(f, i) - LatOffsetAt(f, 1))
                          - 111 * (pts[i].lat - pts[1].lat)) <= 10
                /\ (Abs(LngOffsetAt(f, i)) < 32767 /\ Abs(LngOffsetAt(f, 1)) < 32767) =>
                      Abs(10 * (LngOffsetAt(f, i) - LngOffsetAt(f, 1))
                          - 93 * (pts[i].lng - pts[1].lng)) <= 10

\* C3 witness: a posted compressed frame whose count the budget decided:
\* 10 vertices, 7-character tag, 51 bytes, 8 vertices kept
C3_Witness ==
    /\ HasPosted
    /\ HasCompressed
    /\ args.spreading_factor = "SF10"
    /\ NumInput = 10
    /\ TagLen = 7
    /\ CountByte(CompressedFrame) = 8

\* C4: whenever the compressed encoder admits fewer vertices than the caller
\* supplied, the result returned to the caller says so.  The call returns a
\* bare bool, and True is what an unclipped success returns, so a clipped
\* call must at least not return True.
C4_ClipReported ==
    (HasPosted /\ HasCompressed /\ CountByte(CompressedFrame) < NumInput) =>
        ret # TRUE

\* C5: on every encoding path, a frame is posted only if every input
\* coordinate lies inside the bounding box (stated for the widest box any
\* path uses: latitude in [-90, 90], longitude in [-180, 180]).
C5_BoundingBoxValidated ==
    HasPosted =>
        /\ args.geofence_type = "circle" =>
              CircleCoordsValid(args.coordinates)
        /\ args.geofence_type = "polygon" =>
              \A i \in 1..NumInput : CircleCoordsValid(args.coordinates.points[i])

\* C6: no frame is posted for a circle whose radius is outside [10, 65535],
\* nor for a polygon of fewer than 3 or more than 10 vertices.
C6_StructuralValidation ==
    HasPosted =>
        /\ args.geofence_type = "circle" =>
              (10 <= args.coordinates.radius /\ args.coordinates.radius <= 65535)
        /\ args.geofence_type = "polygon" =>
              (3 <= NumInput /\ NumInput <= 10)

\* C7: for a polygon of at most 10 vertices, all inside the bounding box,
\* every encoded offset is within 0.5 m of the exact meter-scaled offset of
\* its vertex from the reference point, clamped offsets included.
C7_QuantizationBound ==
    (HasCompressed /\ NumInput <= 10) =>
        LET f   == CompressedFrame
            cnt == CountByte(f)
            pts == SliceTo(args.coordinates.points, cnt)
        IN  \A i \in 1..cnt :
                LET la == offset_meters(pts[i].lat, SumLat(pts), cnt, lat_scale_factor)
                    lo == offset_meters(pts[i].lng, SumLng(pts), cnt, lng_scale_factor)
                IN  /\ 2 * Abs(LatOffsetAt(f, i) * la.den - la.num) <= la.den
                    /\ 2 * Abs(LngOffsetAt(f, i) * lo.den - lo.num) <= lo.den

\* C8: a circle frame is the 11 fixed bytes followed by the group tag cut to
\* the room the budget leaves (never dropped).
C8_CircleLayout ==
    (HasPosted /\ InTable /\ args.geofence_type = "circle") =>
        /\ Len(PostedFrame) >= 11
        /\ PostedFrame[1] = 0
        /\ SubSeq(PostedFrame, 10, 11) = PackU16(args.coordinates.radius)
        /\ SubSeq(PostedFrame, 12, Len(PostedFrame))
              = SliceTo(args.group_id, Budget - 11)

\* C9: decode_gps_payload returns no report for any frame shorter than 15
\* bytes; what it returns is either nothing or a report whose every field was
\* read from a complete 15-byte frame, never a partly filled one.
C9_ShortFrameRejected ==
    upc = "decoded" =>
        /\ Len(uplink.frame) < 15 => report = NoReport
        /\ report.returned => Len(uplink.frame) = 15
        /\ ~report.returned => report = NoReport

\* C9 witness: a well-formed 14-byte frame was handed in and refused
C9_Witness ==
    /\ upc = "decoded"
    /\ Len(uplink.frame) = 14
    /\ hexin = ToHex(uplink.frame)
    /\ report = NoReport

\* C10: decoding the exact 15-byte frame of the reference encoder gives back
\* latitude and longitude to within 1e-7 degree (one unit of the scaled
\* integers), the altitude (a u16) exactly, and the two flags exactly.
C10_RoundTrip ==
    (upc = "decoded" /\ hexin = ToHex(ReferenceEncode(uplink.telemetry))) =>
        /\ report.returned
        /\ Abs(report.latitude - uplink.telemetry.lat) <= 1
        /\ Abs(report.longitude - uplink.telemetry.lng) <= 1
        /\ report.altitude = uplink.telemetry.altitude
        /\ report.gps_valid = (uplink.telemetry.flags % 2 = 1)
        /\ report.inside_geofence = ((uplink.telemetry.flags \div 2) % 2 = 1)

\* the frame with its alert byte (byte 14 of 15) replaced
WithAlertByte(frame, b) == [i \in 1..Len(frame) |-> IF i = 14 THEN b ELSE frame[i]]

\* C11: an alert byte in [0,4] decodes to its fixed severity name; an alert
\* byte outside [0,4] decodes to something that is no valid severity and
\* that differs from what any other out-of-range byte decodes to (the result
\* carries the raw level).
C11_AlertDecoding ==
    (upc = "decoded" /\ report.returned) =>
        LET a == uplink.frame[14]
        IN  /\ a = 0 => report.alert = "SAFE"
            /\ a = 1 => report.alert = "WARNING"
            /\ a = 2 => report.alert = "CAUTION"
            /\ a = 3 => report.alert = "DANGER"
            /\ a = 4 => report.alert = "EMERGENCY"
            /\ a > 4 =>
                /\ report.alert \notin {"SAFE", "WARNING", "CAUTION", "DANGER", "EMERGENCY"}
                /\ \A b \in 5..255 :
                      b # a =>
                        decode_gps_payload(ToHex(WithAlertByte(uplink.frame, b))) # report

\* within 0.001 degree of the null island on both axes
NearNullIsland(lat, lng) == 10 * Abs(lat) <= DegUnit \div 100 /\ 10 * Abs(lng) <= DegUnit \div 100

\* some group of the device has an active geofence
HasActiveGeofence(d) ==
    \E i \in 1..Len(DeviceGroups(d)) : ActiveGeofences(DeviceGroups(d)[i]) # {}

\* the call of worker u has decided what it records and is about to write
Decided(u) == units[u].pc = "commit"

\* C12: a report with the GPS-valid flag set whose coordinates are (0, 0) or
\* within 0.001 degree of it is not evaluated for containment; one that is
\* not near the null island (only one coordinate is zero, say) is evaluated
\* whenever its device has an active geofence.
C12_NullIslandRule ==
    \A u \in Units :
        (Decided(u) /\ Truthy(units[u].gps_valid)) =>
            /\ NearNullIsland(units[u].lat, units[u].lng) => ~units[u].evaluated
            /\ (~NearNullIsland(units[u].lat, units[u].lng)
                    /\ HasActiveGeofence(units[u].device_id)) => units[u].evaluated

\* Inside -> Outside transitions among the stored rows of a device
Edges(rows) ==
    Cardinality({i \in 1..(Len(rows) - 1) :
        rows[i].inside_geofence = "True" /\ rows[i + 1].inside_geofence = "False"})

\* alert commands handed to delivery (port 2 is the command port)
AlertCommands == {i \in 1..Len(posted) : posted[i].fPort = 2}

\* C13: once the collar's reports are processed, as many alert commands have
\* been emitted as there were Inside -> Outside transitions; after
\* Inside, Inside, Outside, Outside, Inside, Outside that is exactly two.
C13_EdgeTriggeredAlert ==
    units[1].pc = "idle" =>
        /\ Cardinality(AlertCommands) = Edges(positions[1])
        /\ [i \in 1..Len(positions[1]) |-> positions[1][i].inside_geofence]
                = <<"True", "True", "False", "False", "True", "False">>
              => Cardinality(AlertCommands) = 2

\* C14: the step that stores a report whose GPS is invalid evaluates no
\* containment and leaves the containment that get_devices reads for the
\* device as it was.
C14_InvalidGpsKeepsState ==
    [][\A u \in Units :
        (Decided(u) /\ units'[u].pc = "idle" /\ ~Truthy(units[u].gps_valid)) =>
            /\ ~units[u].evaluated
            /\ current_inside_geofence(positions'[units[u].device_id])
                  = current_inside_geofence(positions[units[u].device_id])]_vars

\* C15: when the device has no groups, or none of its groups has an active
\* geofence, or its geofence cannot be evaluated (no query can be built for
\* it), the containment recorded for the position is null, never false.
C15_UnknownIsNotFalse ==
    \A u \in Units :
        (Decided(u)
            /\ \/ ~HasActiveGeofence(units[u].device_id)
               \/ units[u].evaluated /\ ~HasQuery(units[u].geofence)) =>
            units[u].inside_geofence = "None"

\* C16: two calls of add_device_position for the same device are never under
\* way at the same time (between the first read of one and its write, the
\* other has not started).
C16_PerDeviceSerialized ==
    \A u1 \in Units, u2 \in Units :
        (u1 # u2 /\ InFlight(u1) /\ InFlight(u2)) =>
            units[u1].device_id # units[u2].device_id

\* C17: whichever codec operation ran (send_geofence_downlink,
\* create_compressed_polygon_payload, pack_geofence_to_bytes), no exception
\* left it: failure shows in what it returned.
C17_ErrorsAreValues ==
    pc \in {"sent", "compressed", "packed"} => raised = ""

\* the geofence passes the encoder's validation: coordinates inside the
\* bounding box, radius in [10, 65535], 3 to 10 vertices
PassesValidation(a) ==
    IF a.geofence_type = "circle"
        THEN CircleCoordsValid(a.coordinates) /\ CircleRadiusValid(a.coordinates)
        ELSE /\ 3 <= Len(a.coordinates.points)
             /\ Len(a.coordinates.points) <= 10
             /\ \A i \in 1..Len(a.coordinates.points) :
                    CircleCoordsValid(a.coordinates.points[i])

\* C18: when the geofence of a create request fails the encoder's
\* validation, no frame is transmitted and the response of that request is
\* not the success result.
C18_RejectedEditReported ==
    (response # "" /\ ~PassesValidation(args)) =>
        /\ posted = <<>>
        /\ response # "200"

\* latitude, longitude and radius are in range
CommandInRange(a) ==
    /\ a.geofence_type = "circle"
    /\ CircleCoordsValid(a.coordinates)
    /\ 0 <= a.coordinates.radius /\ a.coordinates.radius <= 65535

\* the 11-byte frame u8 cmd | i32 lat*1e7 | i32 lng*1e7 | u16 radius
CommandFrame(a) ==
    <<2>> \o PackI32(a.coordinates.lat * 1000) \o PackI32(a.coordinates.lng * 1000)
          \o PackU16(a.coordinates.radius)

\* C19: for latitude, longitude and radius in range, send_geofence_to_device
\* hands to delivery, on port 2, the 11-byte little-endian frame
\* u8 cmd | i32 lat*1e7 | i32 lng*1e7 | u16 radius.
C19_CommandFrame ==
    (pc = "commanded" /\ CommandInRange(args)) =>
        /\ Len(posted) = 1
        /\ posted[1].fPort = 2
        /\ Len(posted[1].frame) = 11
        /\ posted[1].frame = CommandFrame(args)

\* the budget the design prescribes for a data-rate identifier: its table
\* value, 51 bytes for an identifier the table does not have
PrescribedBudget ==
    IF InTable THEN AU915_PAYLOAD_LIMITS[args.spreading_factor] ELSE 51

\* C20: send_geofence_downlink and create_compressed_polygon_payload encode
\* against the table value of a data rate of the table and against 51 bytes
\* for any other identifier: no posted frame is longer than that budget and
\* a longer built frame is refused, a polygon is posted in the direct form
\* exactly when 2 + 8 per vertex + tag fits that budget with at most 6
\* vertices, and a compressed frame keeps
\* min(input_count, floor((budget - 9 - |tag|) / 4), 10) vertices.
C20_UnknownRateFallback ==
    /\ pc = "sent" =>
        /\ \A i \in 1..Len(posted) : Len(posted[i].frame) <= PrescribedBudget
        /\ Len(payload) > PrescribedBudget => (posted = <<>> /\ ret = FALSE)
    /\ (HasPosted /\ args.geofence_type = "polygon") =>
        (PostedFrame[1] = 1 <=>
            (2 + 8 * NumInput + TagLen <= PrescribedBudget /\ NumInput <= 6))
    /\ HasCompressed =>
        CountByte(CompressedFrame) =
            Min(Min(NumInput, FloorDiv(PrescribedBudget - 9 - TagLen, 4)), 10)

\* C20 witness: at the unknown rate "SF13" create_compressed_polygon_payload
\* returns a frame whose count the 51-byte budget decided: 10 vertices,
\* 7-character tag, 8 vertices kept
C20_Witness ==
    /\ pc = "compressed"
    /\ raised = ""
    /\ ~InTable
    /\ NumInput = 10
    /\ TagLen = 7
    /\ CountByte(payload) = 8
    /\ Len(payload) = 49

\* devices a downlink can be announced for
AnnouncedTargets == PathEUIs \cup {TargetDevice(q) : q \in QueryEUIs}

\* the last request announced a circle downlink for device d: a circle
\* update answered 200, or send-geofence answered 200
Announced(d) ==
    /\ response = "200"
    /\ \/ request.op = "send-geofence" /\ request.device_eui = d
       \/ /\ request.op = "update"
          /\ request.geofence_type = "circle"
          /\ TargetDevice(request.device_eui) = d

\* a circle frame for device d has been handed to the ChirpStack queue
CirclePosted(d) ==
    \E i \in 1..Len(posted) :
        /\ posted[i].devEUI = d
        /\ posted[i].frame # <<>>
        /\ posted[i].frame[1] = 0

\* C21: whenever PUT /geofences/{id} has updated a circle or POST
\* /send-geofence/{device_eui} has answered 200, a circle frame for that
\* device is eventually posted to the ChirpStack device queue.
C21_AnnouncedDownlinkSent ==
    \A d \in AnnouncedTargets : Announced(d) ~> CirclePosted(d)

\* POST /geofences/ has persisted the geofence of the request
CreatePersisted == request.op = "create" /\ response = "200"

\* C22: once POST /geofences/ has persisted a geofence (of either type),
\* exactly one send_geofence_downlink task has been added, with arguments
\* the function accepts: the device is the device_eui of the request or
\* else the default EUI, the geofence is the stored one and the tag is the
\* name of its group; and a task that has started finds the geofence
\* committed.
C22_CreateSchedulesOneTask ==
    /\ CreatePersisted =>
        /\ Len(tasks) = 1
        /\ tasks[1].argc <= 5
        /\ tasks[1].call.device_eui =
              (IF request.device_eui = "" THEN "000048ca433cec58" ELSE request.device_eui)
        /\ stored # <<>>
        /\ tasks[1].call.geofence_type = stored[Len(stored)].geofence_type
        /\ tasks[1].call.coordinates = stored[Len(stored)].coordinates
        /\ tasks[1].call.group_id = args.group_id
        /\ request.id \in GroupIds
    /\ \A i \in 1..Len(tasks) : tasks[i].state # "pending" => stored # <<>>
    /\ (request.op = "create" /\ response # "200") => (tasks = <<>> /\ stored = <<>>)

\* C22 witness: a polygon was created for the device named in the request,
\* its one task has run and posted the frame to that device's queue
C22_Witness ==
    /\ CreatePersisted
    /\ request.device_eui = "70b3d57ed8003421"
    /\ request.geofence_type = "polygon"
    /\ Len(tasks) = 1
    /\ tasks[1].state = "ran"
    /\ Len(posted) = 1
    /\ posted[1].devEUI = "70b3d57ed8003421"
    /\ ret = TRUE

\* C23: create_compressed_polygon_payload either returns a compressed frame
\* or raises ValueError; no other exception type leaves it.
C23_TwoOutcomes ==
    pc = "compressed" =>
        \/ raised = "" /\ payload # <<>> /\ payload[1] = 2
        \/ raised = "ValueError"

\* C24: get_devices reports "Fuera" for a device only when its latest
\* position row has inside_geofence false; when the latest row's containment
\* is null the status is neither "Dentro" nor "Fuera".
C24_UnknownIsNotOutside ==
    \A d \in Devices :
        /\ geofence_status(d, positions[d]) = "Fuera" =>
              positions[d][Len(positions[d])].inside_geofence = "False"
        /\ (HasLastPosition(positions[d])
              /\ positions[d][Len(positions[d])].inside_geofence = "None") =>
              geofence_status(d, positions[d]) \notin {"Dentro", "Fuera"}

\* C25: for an input polygon of at least 3 vertices and any group tag, a
\* polygon frame handed to the ChirpStack queue encodes at least 3
\* vertices: its count byte is in [3, 6] for type 1 and in [3, 10] for
\* type 2.
C25_AtLeastThreeVertices ==
    (HasPosted /\ args.geofence_type = "polygon" /\ NumInput >= 3) =>
        /\ PostedFrame[1] = 1 => (3 <= PostedFrame[2] /\ PostedFrame[2] <= 6)
        /\ PostedFrame[1] = 2 =>
              (3 <= CountByte(PostedFrame) /\ CountByte(PostedFrame) <= 10)

\* C26: send_geofence_downlink posts only a non-empty frame whose first
\* byte is 0, 1 or 2; for a geofence_type other than "circle" or "polygon"
\* nothing is posted and the call returns False.
C26_NoFrameWithoutGeofence ==
    pc = "sent" =>
        /\ \A i \in 1..Len(posted) :
              posted[i].frame # <<>> /\ posted[i].frame[1] \in {0, 1, 2}
        /\ args.geofence_type \notin {"circle", "polygon"} =>
              (posted = <<>> /\ ret = FALSE)

\* the bytes of a posted frame after its geometry: after the 11-byte circle,
\* after the 2 + 8 * count bytes of a direct polygon, after the 10 + 4 *
\* count bytes of a compressed polygon
TagPortion(f) ==
    IF f[1] = 0 THEN SubSeq(f, 12, Len(f))
    ELSE IF f[1] = 1 THEN SubSeq(f, 3 + 8 * f[2], Len(f))
    ELSE SubSeq(f, 11 + 4 * CountByte(f), Len(f))

\* C27: in every frame send_geofence_downlink transmits (circle, direct or
\* compressed polygon) the trailing group-tag portion is at most 15 bytes.
C27_TagLengthCap ==
    (HasPosted /\ PostedFrame # <<>>) => Len(TagPortion(PostedFrame)) <= 15

\* C28: whenever compress_polygon_coordinates admits count >= 1 vertices,
\* the frame it returns carries the complete group tag: its length is
\* header + 4 * count + |tag| and what follows the offsets is the tag.
C28_TagRoomReserved ==
    (pc = "compressed" /\ raised = "" /\ CountByte(payload) >= 1) =>
        /\ Len(payload) = 10 + 4 * CountByte(payload) + TagLen
        /\ SubSeq(payload, 11 + 4 * CountByte(payload), Len(payload)) = args.group_id

\* the step handles a request of kind op
Handles(op) == request'.n = request.n + 1 /\ request'.op = op

\* C29: deleting a device that does not exist is answered 404 and leaves
\* the devices table unchanged; only deleting an existing device is answered
\* with success.
C29_DeleteMissingDevice ==
    [][Handles("delete") =>
        IF \E row \in devices.rows : row.id = request'.id
            THEN response' = "204" /\ devices'.rows # devices.rows
            ELSE response' = "404" /\ devices'.rows = devices.rows]_vars

\* C30: a request to register a DevEUI that is already registered, in any
\* letter case, is answered 400 and never reaches the database insert.
C30_DuplicateRegistration ==
    [][(Handles("register") /\ StrUpper(request'.dev_eui) \in StoredEUIs) =>
        /\ response' = "400"
        /\ devices'.inserts = devices.inserts]_vars

====
